---- MODULE Spec2Model ----
(***************************************************************************)
(* Model of mio_httpc's call identity (src/api/mod.rs): Call, CallRef and  *)
(* the operations on them, with the SendState / RecvState protocol that    *)
(* the engine reports while it drives a Call.                              *)
(*                                                                         *)
(* A u32 does not fit TLC's integers, so a u32 is the pair <<hi, lo>> of   *)
(* its two 16-bit halves and the shifts, masks and ors of the source are   *)
(* computed on the halves, bit by bit.                                     *)
(***************************************************************************)
EXTENDS Integers, Naturals, Sequences, FiniteSets, TLC

\* ------------------------------------------------------------- bounds
\* Number of Call objects the harness creates.
MaxCalls == 2

\* ------------------------------------------------------- machine words
\* 0xFFFF: a u16 with every bit set.
Mask16 == 65535

\* Width of one half of a u32.
HalfBits == 16

RECURSIVE BitOr(_, _, _)
\* a | b on n-bit operands.
BitOr(a, b, n) ==
    IF n = 0 THEN 0
    ELSE IF a = 0 THEN b
    ELSE IF b = 0 \/ a = b THEN a
    ELSE (IF a % 2 = 1 \/ b % 2 = 1 THEN 1 ELSE 0)
         + 2 * BitOr(a \div 2, b \div 2, n - 1)

RECURSIVE BitAnd(_, _, _)
\* a & b on n-bit operands.
BitAnd(a, b, n) ==
    IF n = 0 \/ a = 0 \/ b = 0 THEN 0
    ELSE IF a = b THEN a
    ELSE (IF a % 2 = 1 /\ b % 2 = 1 THEN 1 ELSE 0)
         + 2 * BitAnd(a \div 2, b \div 2, n - 1)

\* `x as u32` of a u16 x: zero extension.
AsU32(x) == <<0, x>>

\* `w as u16` of a u32 w: truncation to the low half.
AsU16(w) == w[2]

\* w << 16 on a u32: the high half is shifted out.
Shl16(w) == <<w[2], 0>>

\* w >> 16 on a u32.
Shr16(w) == <<0, w[1]>>

\* v | w on u32.
Or32(v, w) == <<BitOr(v[1], w[1], HalfBits), BitOr(v[2], w[2], HalfBits)>>

\* v & w on u32.
And32(v, w) == <<BitAnd(v[1], w[1], HalfBits), BitAnd(v[2], w[2], HalfBits)>>

\* usize::max_value() on a 64-bit target, as four 16-bit limbs.
UsizeMax == <<Mask16, Mask16, Mask16, Mask16>>

\* The literal 0xffff_ffff.
U32Max == <<Mask16, Mask16>>

\* ------------------------------------------------------ Call, CallRef
\* A Call or a CallRef is the tuple struct (u32, usize): fields f0 and f1.

\* CallRef::new with each id in the other's place.
CallRef_new_swapped(con_id, call_id) ==
    [f0 |-> Or32(Shl16(AsU32(con_id)), AsU32(call_id)), f1 |-> UsizeMax]

\* CallRef::new
CallRef_new(con_id, call_id) ==
    [f0 |-> Or32(Shl16(AsU32(call_id)), AsU32(con_id)), f1 |-> UsizeMax]

\* Call::new with con_id written where call_id belongs.
Call_new_dup(con_id, call_id) ==
    [f0 |-> Or32(Shl16(AsU32(con_id)), AsU32(con_id)), f1 |-> UsizeMax]

\* Call::new without the shift of call_id.
Call_new_noshift(con_id, call_id) ==
    [f0 |-> Or32(AsU32(call_id), AsU32(con_id)), f1 |-> UsizeMax]

\* Call::new
Call_new(con_id, call_id) ==
    [f0 |-> Or32(Shl16(AsU32(call_id)), AsU32(con_id)), f1 |-> UsizeMax]

\* Call::empty
Call_empty == [f0 |-> U32Max, f1 |-> UsizeMax]

\* #[derive(PartialEq)] on Call: both fields are compared.
Call_eq(a, b) == a.f0 = b.f0 /\ a.f1 = b.f1

\* Call::is_empty looking at the connection half only.
Call_is_empty_con(c) == AsU16(c.f0) = Mask16

\* Call::is_empty looking at the reserved field only.
Call_is_empty_f1(c) == c.f1 = UsizeMax

\* Call::is_empty
Call_is_empty(c) == Call_eq(c, Call_empty)

\* Call::get_ref with the halves of the packed value exchanged.
Call_get_ref_swapped(c) == [f0 |-> <<c.f0[2], c.f0[1]>>, f1 |-> c.f1]

\* Call::get_ref
Call_get_ref(c) == [f0 |-> c.f0, f1 |-> c.f1]

\* Call::is_ref comparing the connection half only.
Call_is_ref_con(c, r) == AsU16(c.f0) = AsU16(r.f0)

\* Call::is_ref with the comparison inverted.
Call_is_ref_neq(c, r) == c.f0 # r.f0

\* Call::is_ref
Call_is_ref(c, r) == c.f0 = r.f0

\* Call::call_id without the shift.
Call_call_id_noshift(c) == AsU16(And32(c.f0, AsU32(Mask16)))

\* Call::call_id
Call_call_id(c) == AsU16(And32(Shr16(c.f0), AsU32(Mask16)))

\* Call::con_id
Call_con_id(c) == AsU16(And32(c.f0, AsU32(Mask16)))

\* Call::invalidate that leaves the Call as it is.
Call_invalidate_noop(c) == c

\* Call::invalidate that clears the Call to zero.
Call_invalidate_zero(c) == [f0 |-> <<0, 0>>, f1 |-> UsizeMax]

\* Call::invalidate: the value of *self afterwards.
Call_invalidate(c) == Call_empty

\* -------------------------------------------------- Response, Headers
\* A str or a byte slice is the sequence of its bytes.

\* Slots of the array Response::headers parses into, and of Headers.
HeaderCap == 32

RECURSIVE Utf8From(_, _)
\* std::str::from_utf8 accepts b from index i on: well-formed UTF-8 only
\* (no overlong form, no surrogate, nothing above U+10FFFF).
Utf8From(b, i) ==
    LET n == Len(b)
        Cont(k) == k <= n /\ b[k] >= 128 /\ b[k] <= 191
        In(k, lo, hi) == k <= n /\ b[k] >= lo /\ b[k] <= hi
    IN  IF i > n THEN TRUE
        ELSE IF b[i] < 128 THEN Utf8From(b, i + 1)
        ELSE IF b[i] >= 194 /\ b[i] <= 223
             THEN Cont(i + 1) /\ Utf8From(b, i + 2)
        ELSE IF b[i] = 224
             THEN In(i + 1, 160, 191) /\ Cont(i + 2) /\ Utf8From(b, i + 3)
        ELSE IF b[i] = 237
             THEN In(i + 1, 128, 159) /\ Cont(i + 2) /\ Utf8From(b, i + 3)
        ELSE IF b[i] >= 225 /\ b[i] <= 239
             THEN Cont(i + 1) /\ Cont(i + 2) /\ Utf8From(b, i + 3)
        ELSE IF b[i] = 240
             THEN In(i + 1, 144, 191) /\ Cont(i + 2) /\ Cont(i + 3)
                  /\ Utf8From(b, i + 4)
        ELSE IF b[i] >= 241 /\ b[i] <= 243
             THEN Cont(i + 1) /\ Cont(i + 2) /\ Cont(i + 3) /\ Utf8From(b, i + 4)
        ELSE IF b[i] = 244
             THEN In(i + 1, 128, 143) /\ Cont(i + 2) /\ Cont(i + 3)
                  /\ Utf8From(b, i + 4)
        ELSE FALSE

\* from_utf8(bytes) is Ok.
from_utf8_ok(b) == Utf8From(b, 1)

\* httparse::EMPTY_HEADER
EMPTY_HEADER == [name |-> <<>>, value |-> <<>>]

\* Header::default(): two empty strs.
Header_default == [name |-> <<>>, value |-> <<>>]

\* Header::new
Header_new(n, v) == [name |-> n, value |-> v]

\* Headers::new: Default::default().
Headers_new ==
    [headers |-> [j \in 1 .. HeaderCap |-> Header_default], len |-> 0, next |-> 0]

\* The header lines httparse fills slots from: those before the first line
\* it rejects, as many as there are slots.
RECURSIVE ParsedCount(_, _, _)
ParsedCount(hdrs, j, cap) ==
    IF j > Len(hdrs) \/ j > cap \/ ~hdrs[j].ok THEN j - 1
    ELSE ParsedCount(hdrs, j + 1, cap)

\* presp.parse(&self.hdrs) on `raw`, its result dropped: the slots filled in
\* wire order, the others left EMPTY_HEADER.
httparse_parse(hdrs, cap) ==
    LET filled == ParsedCount(hdrs, 1, cap)
    IN  [j \in 1 .. cap |->
            IF j <= filled
            THEN [name |-> hdrs[j].name, value |-> hdrs[j].value]
            ELSE EMPTY_HEADER]

RECURSIVE HeadersLoopStop(_, _, _, _)
\* The loop of Response::headers leaving at a value that is not UTF-8.
HeadersLoopStop(raw, i, pos, out) ==
    IF i > Len(raw) THEN out
    ELSE IF Len(raw[i].name) = 0 THEN out
    ELSE IF from_utf8_ok(raw[i].value)
         THEN HeadersLoopStop(raw, i + 1, pos + 1,
                  [out EXCEPT !.headers[pos + 1] = Header_new(raw[i].name, raw[i].value),
                              !.len = pos + 1])
    ELSE out

RECURSIVE HeadersLoop(_, _, _, _)
\* The loop of Response::headers from slot i on (i and pos count from 1 here).
HeadersLoop(raw, i, pos, out) ==
    IF i > Len(raw) THEN out
    ELSE IF Len(raw[i].name) = 0 THEN out
    ELSE IF from_utf8_ok(raw[i].value)
         THEN HeadersLoop(raw, i + 1, pos + 1,
                  [out EXCEPT !.headers[pos + 1] = Header_new(raw[i].name, raw[i].value),
                              !.len = pos + 1])
    ELSE HeadersLoop(raw, i + 1, pos, out)

\* Response::headers starting its loop at the second slot.
Response_headers_from1(r) ==
    HeadersLoop(httparse_parse(r.hdrs, HeaderCap), 2, 0, Headers_new)

\* Response::headers leaving its loop at a value that is not UTF-8.
Response_headers_stop(r) ==
    HeadersLoopStop(httparse_parse(r.hdrs, HeaderCap), 1, 0, Headers_new)

\* Response::headers
Response_headers(r) ==
    HeadersLoop(httparse_parse(r.hdrs, HeaderCap), 1, 0, Headers_new)

\* Option<Header>
None == [some |-> FALSE, hdr |-> Header_default]
Some(h) == [some |-> TRUE, hdr |-> h]

\* Headers::next that counts before it tests.
Headers_next_early(h) ==
    IF h.next + 1 >= h.len THEN [self |-> h, item |-> None]
    ELSE [self |-> [h EXCEPT !.next = h.next + 1],
          item |-> Some(h.headers[h.next + 1])]

\* Headers::next: the iterator afterwards and the item returned.
Headers_next(h) ==
    IF h.next = h.len THEN [self |-> h, item |-> None]
    ELSE [self |-> [h EXCEPT !.next = h.next + 1],
          item |-> Some(h.headers[h.next + 1])]

\* u8::to_ascii_lowercase: only A..Z are folded.
to_ascii_lowercase(c) == IF c >= 65 /\ c <= 90 THEN c + 32 ELSE c

\* Folding every byte the way a letter is folded.
to_ascii_lowercase_all(c) == IF (c \div 32) % 2 = 0 THEN c + 32 ELSE c

\* str::eq_ignore_ascii_case with every byte folded.
eq_ignore_ascii_case_all(a, b) ==
    /\ Len(a) = Len(b)
    /\ \A i \in 1 .. Len(a) :
          to_ascii_lowercase_all(a[i]) = to_ascii_lowercase_all(b[i])

\* str::eq_ignore_ascii_case
eq_ignore_ascii_case(a, b) ==
    /\ Len(a) = Len(b)
    /\ \A i \in 1 .. Len(a) : to_ascii_lowercase(a[i]) = to_ascii_lowercase(b[i])

\* Header::is folding every byte.
Header_is_all(h, v) == eq_ignore_ascii_case_all(h.name, v)

\* Header::is
Header_is(h, v) == eq_ignore_ascii_case(h.name, v)

\* ResponseBody: Sized(n) or Streamed (n is 0 then).
Sized(n) == [tag |-> "Sized", n |-> n]
Streamed == [tag |-> "Streamed", n |-> 0]

\* ResponseBody::is_empty that takes a body of unknown size for empty.
ResponseBody_is_empty_unsized(b) ==
    IF b.n = 0 THEN TRUE ELSE FALSE

\* ResponseBody::is_empty
ResponseBody_is_empty(b) ==
    IF b.tag = "Sized" /\ b.n = 0 THEN TRUE ELSE FALSE

\* ------------------------------------------------------------- HttpcCfg
\* HttpcCfg::new
HttpcCfg_new == [der_ca |-> <<>>, pem_ca |-> <<>>, cache_buffers |-> 8]

\* io::Result<HttpcCfg>; an Err carries no HttpcCfg.
Ok(c) == [res |-> "Ok", val |-> c]
Err == [res |-> "Err", val |-> HttpcCfg_new]

\* let certs = [OsStr::new("crt"), OsStr::new("pem")]
certs == {"crt", "pem"}

\* meta.len() < 1024 * 8
SizeLimit == 1024 * 8

RECURSIVE DirLoop(_, _, _)
\* for de in fs::read_dir(path)?, from the j-th entry on.
DirLoop(entries, j, c) ==
    IF j > Len(entries) THEN Ok(c)
    ELSE LET de == entries[j]
         IN  IF ~de.de THEN DirLoop(entries, j + 1, c)
             ELSE IF de.ext \in certs
                  THEN IF ~de.meta THEN Err
                       ELSE IF de.len < SizeLimit
                            THEN IF ~de.open THEN Err
                                 ELSE IF ~de.read THEN Err
                                 ELSE DirLoop(entries, j + 1,
                                         [c EXCEPT !.pem_ca = Append(@, de.data)])
                       ELSE DirLoop(entries, j + 1, c)
             ELSE DirLoop(entries, j + 1, c)

\* HttpcCfg::certs_from_path on the path the file system f describes.
certs_from_path(f) ==
    IF ~f.meta THEN Err
    ELSE IF f.kind = "file"
         THEN IF ~f.open THEN Err
              ELSE IF ~f.read THEN Err
              ELSE Ok([HttpcCfg_new EXCEPT !.pem_ca = Append(@, f.data)])
    ELSE IF ~f.list THEN Err
    ELSE DirLoop(f.entries, 1, HttpcCfg_new)

\* ------------------------------------------------------------ harness
\* u16 arguments the harness passes: both ends of the range.
Ids == {0, Mask16}

CallIdx == 1 .. MaxCalls

\* No Call object / no CallRef / nothing returned yet.
NoCall == [f0 |-> <<>>, f1 |-> <<>>]
NoRef == [val |-> NoCall, src |-> 0, fresh |-> FALSE, pair |-> <<>>]
NoRet == [op |-> "none", i |-> 0, val |-> FALSE]
NoArgs == [by |-> "none", con_id |-> 0, call_id |-> 0, after |-> {}]

VARIABLES
    call,   \* call[i]: the value of the i-th Call object, NoCall before it exists
    args,   \* history: how call[i] was constructed, and the calls invalidated by then
    dead,   \* history: the Call objects invalidate() has been applied to
    ref,    \* the CallRef held for routing; history: the Call it was taken from
            \* (src, and fresh: taken before that Call was invalidated) or the
            \* pair CallRef::new was given
    ret,    \* what the last operation returned, when it was a query
    cur,    \* engine: the Call object of the exchange in progress, 0 if none
    phase,  \* engine: "idle", "send", "recv" or "finished"
    xch,    \* engine: what is left of the exchange in progress
    log,    \* history: the variants reported for that exchange, Wait left out
    last,   \* the variant the last drive step reported, and for which Call
    resp,   \* the Response whose headers are read
    it,     \* it[k]: the k-th Headers iterator made from resp, NoIt before
    item,   \* what the last call of next() returned, and on which iterator
    hret,   \* what the last call of Header::is or ResponseBody::is_empty returned
    fsys,   \* the path given to certs_from_path and what the file system holds there
    cfg     \* what certs_from_path returned

\* The variables of the identity harness and those of the engine.
hvars == <<ref, ret>>
evars == <<cur, phase, xch, log, last>>

\* The variables of the Response, Header, ResponseBody and HttpcCfg models.
nvars == <<resp, it, item, hret, fsys, cfg>>

vars == <<call, args, dead, ref, ret, cur, phase, xch, log, last,
          resp, it, item, hret, fsys, cfg>>

\* ------------------------------------------------- SendState, RecvState
\* A reported variant: the enum it belongs to ("Send" or "Recv"), the variant,
\* its byte count, and a tag: for Response the ResponseBody ("Sized" with the
\* count, or "Streamed"), for Error the cause.
Rep(st, kind, n, tag) == [st |-> st, kind |-> kind, n |-> n, tag |-> tag]

\* The variants after which the call is finished.
Terminal == {"Error", "Done", "DoneWithBody"}

\* The variants after which the call goes on.
NonTerminal ==
    {"SentBody", "WaitReqBody", "Receiving", "Response", "ReceivedBody",
     "Sending", "Wait"}

NoXch == [reqLeft |-> 0, needBody |-> FALSE, gotResp |-> FALSE,
          body |-> "", bodyLeft |-> 0, hops |-> 0, req |-> 0]
NoLast == [i |-> 0, late |-> FALSE, rep |-> Rep("", "none", 0, "")]

\* The two Headers iterators held: an earlier one and a later one.
ItIdx == {1, 2}

\* Response::new(): Default::default().
Response_new == [hdrs |-> <<>>, status |-> 0, ws |-> FALSE]

\* No iterator / nothing returned yet / no path / no result.
NoIt == [headers |-> <<>>, len |-> 0, next |-> 0]
NoItem == [k |-> 0, opt |-> None]
NoHret == [op |-> "none", body |-> Streamed, a |-> <<>>, b |-> <<>>, val |-> FALSE]
NoFs ==
    [kind |-> "none", meta |-> FALSE, open |-> FALSE, read |-> FALSE, data |-> 0,
     list |-> FALSE, entries |-> <<>>]
NoCfg == [res |-> "none", val |-> HttpcCfg_new]

\* The other models at rest.
Idle ==
    /\ resp = Response_new
    /\ it = [k \in ItIdx |-> NoIt]
    /\ item = NoItem
    /\ hret = NoHret
    /\ fsys = NoFs
    /\ cfg = NoCfg

Init ==
    /\ call = [i \in CallIdx |-> NoCall]
    /\ args = [i \in CallIdx |-> NoArgs]
    /\ dead = {}
    /\ ref = NoRef
    /\ ret = NoRet
    /\ cur = 0
    /\ phase = "idle"
    /\ xch = NoXch
    /\ log = <<>>
    /\ last = NoLast
    /\ Idle

Exists(i) == call[i] # NoCall

\* Call objects are numbered in the order they are constructed.
Fresh(i) == ~Exists(i) /\ (IF i = 1 THEN TRUE ELSE Exists(i - 1))

\* let c = Call::new(con_id, call_id)
New(i, con_id, call_id) ==
    /\ Fresh(i)
    /\ call' = [call EXCEPT ![i] = Call_new(con_id, call_id)]
    /\ args' = [args EXCEPT ![i] =
                   [by |-> "new", con_id |-> con_id, call_id |-> call_id,
                    after |-> dead]]
    /\ ret' = NoRet
    /\ UNCHANGED <<dead, ref>>
    /\ UNCHANGED <<evars, nvars>>

\* let c = Call::empty()
NewEmpty(i) ==
    /\ Fresh(i)
    /\ call' = [call EXCEPT ![i] = Call_empty]
    /\ args' = [args EXCEPT ![i] =
                   [by |-> "empty", con_id |-> 0, call_id |-> 0, after |-> dead]]
    /\ ret' = NoRet
    /\ UNCHANGED <<dead, ref>>
    /\ UNCHANGED <<evars, nvars>>

\* c.invalidate()
Invalidate(i) ==
    /\ Exists(i)
    /\ call' = [call EXCEPT ![i] = Call_invalidate(call[i])]
    /\ dead' = dead \cup {i}
    /\ ret' = NoRet
    /\ UNCHANGED <<args, ref>>
    /\ UNCHANGED <<evars, nvars>>

\* r = c.get_ref()
GetRef(i) ==
    /\ Exists(i)
    /\ ref' = [val |-> Call_get_ref(call[i]), src |-> i, fresh |-> i \notin dead,
               pair |-> <<>>]
    /\ ret' = NoRet
    /\ UNCHANGED <<call, args, dead>>
    /\ UNCHANGED <<evars, nvars>>

\* r = CallRef::new(con_id, call_id)
RefNew(con_id, call_id) ==
    /\ ref' = [val |-> CallRef_new(con_id, call_id), src |-> 0, fresh |-> FALSE,
               pair |-> <<con_id, call_id>>]
    /\ ret' = NoRet
    /\ UNCHANGED <<call, args, dead>>
    /\ UNCHANGED <<evars, nvars>>

\* c.is_ref(r)
IsRef(i) ==
    /\ Exists(i)
    /\ ref # NoRef
    /\ ret' = [op |-> "is_ref", i |-> i, val |-> Call_is_ref(call[i], ref.val)]
    /\ UNCHANGED <<call, args, dead, ref>>
    /\ UNCHANGED <<evars, nvars>>

\* c.is_empty()
IsEmpty(i) ==
    /\ Exists(i)
    /\ ret' = [op |-> "is_empty", i |-> i, val |-> Call_is_empty(call[i])]
    /\ UNCHANGED <<call, args, dead, ref>>
    /\ UNCHANGED <<evars, nvars>>

\* c.call_id()
CallId(i) ==
    /\ Exists(i)
    /\ ret' = [op |-> "call_id", i |-> i, val |-> Call_call_id(call[i])]
    /\ UNCHANGED <<call, args, dead, ref>>
    /\ UNCHANGED <<evars, nvars>>

\* c.con_id()
ConId(i) ==
    /\ Exists(i)
    /\ ret' = [op |-> "con_id", i |-> i, val |-> Call_con_id(call[i])]
    /\ UNCHANGED <<call, args, dead, ref>>
    /\ UNCHANGED <<evars, nvars>>

Next ==
    \/ \E i \in CallIdx, con_id \in Ids, call_id \in Ids : New(i, con_id, call_id)
    \/ \E i \in CallIdx : NewEmpty(i)
    \/ \E i \in CallIdx : Invalidate(i)
    \/ \E i \in CallIdx : GetRef(i)
    \/ \E con_id \in Ids, call_id \in Ids : RefNew(con_id, call_id)
    \/ \E i \in CallIdx : IsRef(i)
    \/ \E i \in CallIdx : IsEmpty(i)
    \/ \E i \in CallIdx : CallId(i)
    \/ \E i \in CallIdx : ConId(i)

Spec == Init /\ [][Next]_vars

\* -------------------------------------------------------------- engine
\* The engine that drives a Call. It owns one connection slot and runs one
\* exchange at a time on it; the caller drives the half the exchange is in.

\* Bytes one step transfers at most when it does not transfer all that is left.
SendChunk == 64
RecvChunk == 32

\* Times one exchange may be pushed back into the send phase.
MaxRedirects == 1

\* The id of the engine's connection slot.
Slot == 0

\* Length of the request body and of a sized response body.
ReqBodyLen == 128
RespBodyLen == 42

\* Length of the response body that follows a redirect.
RedirBodyLen == 10

\* The byte counts one step may report with `left` bytes to go.
Chunks(left, chunk) == {left} \cup (IF chunk < left THEN {chunk} ELSE {})

\* The drive step on Call i can make progress: the exchange is i's, and the
\* Call has not been invalidated.
Driving(i, ph) == i = cur /\ phase = ph /\ Exists(i) /\ ~Call_is_empty(call[i])

\* The drive step returns rep for Call i.
Report(i, rep) == last' = [i |-> i, late |-> i \in dead, rep |-> rep]

\* The step ends the exchange: the engine invalidates the caller's Call.
Finish(i) ==
    /\ call' = [call EXCEPT ![i] = Call_invalidate(call[i])]
    /\ dead' = dead \cup {i}
    /\ phase' = "finished"
    /\ UNCHANGED <<args, cur, xch>>

\* The step goes on with the exchange.
GoOn == UNCHANGED <<call, args, dead, cur>>

\* The engine accepts a request with a body of req bytes, supplied now or
\* when the engine asks for it, and issues the Call for it.
Start(i, req, needBody) ==
    /\ Fresh(i)
    /\ phase \in {"idle", "finished"}
    /\ call' = [call EXCEPT ![i] = Call_new(Slot, i - 1)]
    /\ args' = [args EXCEPT ![i] =
                   [by |-> "new", con_id |-> Slot, call_id |-> i - 1,
                    after |-> dead]]
    /\ cur' = i
    /\ phase' = "send"
    /\ xch' = [NoXch EXCEPT !.reqLeft = req, !.req = req,
                            !.needBody = needBody /\ req > 0]
    /\ log' = <<>>
    /\ UNCHANGED <<dead, last, hvars, nvars>>

\* Driving a Call that was invalidated: caller misuse, reported as Error.
DriveMisuse(i, st) ==
    /\ Exists(i)
    /\ Call_is_empty(call[i])
    /\ Report(i, Rep(st, "Error", 0, "misuse"))
    /\ UNCHANGED <<call, args, dead, cur, phase, xch, log, hvars, nvars>>

\* SendState::Wait / RecvState::Wait
DriveWait(i, st) ==
    /\ Driving(i, IF st = "Send" THEN "send" ELSE "recv")
    /\ Report(i, Rep(st, "Wait", 0, ""))
    /\ UNCHANGED <<call, args, dead, cur, phase, xch, log, hvars, nvars>>

\* SendState::Error / RecvState::Error
DriveError(i, st) ==
    /\ Driving(i, IF st = "Send" THEN "send" ELSE "recv")
    /\ Report(i, Rep(st, "Error", 0, "transport"))
    /\ log' = Append(log, Rep(st, "Error", 0, "transport"))
    /\ Finish(i)
    /\ UNCHANGED <<hvars, nvars>>

\* SendState::WaitReqBody
WaitReqBody(i) ==
    /\ Driving(i, "send")
    /\ xch.needBody
    /\ Report(i, Rep("Send", "WaitReqBody", 0, ""))
    /\ log' = Append(log, Rep("Send", "WaitReqBody", 0, ""))
    /\ xch' = [xch EXCEPT !.needBody = FALSE]
    /\ GoOn
    /\ UNCHANGED <<phase, hvars, nvars>>

\* SendState::SentBody(n)
SentBody(i, n) ==
    /\ Driving(i, "send")
    /\ ~xch.needBody
    /\ xch.reqLeft > 0
    /\ n \in Chunks(xch.reqLeft, SendChunk)
    /\ Report(i, Rep("Send", "SentBody", n, ""))
    /\ log' = Append(log, Rep("Send", "SentBody", n, ""))
    /\ xch' = [xch EXCEPT !.reqLeft = xch.reqLeft - n]
    /\ GoOn
    /\ UNCHANGED <<phase, hvars, nvars>>

\* SendState::Receiving
Receiving(i) ==
    /\ Driving(i, "send")
    /\ xch.reqLeft = 0
    /\ Report(i, Rep("Send", "Receiving", 0, ""))
    /\ log' = Append(log, Rep("Send", "Receiving", 0, ""))
    /\ phase' = "recv"
    /\ GoOn
    /\ UNCHANGED <<xch, hvars, nvars>>

\* SendState::Done
SendDone(i) ==
    /\ Driving(i, "send")
    /\ xch.reqLeft = 0
    /\ Report(i, Rep("Send", "Done", 0, ""))
    /\ log' = Append(log, Rep("Send", "Done", 0, ""))
    /\ Finish(i)
    /\ UNCHANGED <<hvars, nvars>>

\* RecvState::Response(r, body)
Response(i, tag, n) ==
    /\ Driving(i, "recv")
    /\ ~xch.gotResp
    /\ Report(i, Rep("Recv", "Response", IF tag = "Sized" THEN n ELSE 0, tag))
    /\ log' = Append(log, Rep("Recv", "Response", IF tag = "Sized" THEN n ELSE 0, tag))
    /\ xch' = [xch EXCEPT !.gotResp = TRUE, !.body = tag, !.bodyLeft = n]
    /\ GoOn
    /\ UNCHANGED <<phase, hvars, nvars>>

\* RecvState::ReceivedBody(n)
ReceivedBody(i, n) ==
    /\ Driving(i, "recv")
    /\ xch.gotResp
    /\ xch.bodyLeft > 0
    /\ n \in Chunks(xch.bodyLeft, RecvChunk)
    /\ Report(i, Rep("Recv", "ReceivedBody", n, ""))
    /\ log' = Append(log, Rep("Recv", "ReceivedBody", n, ""))
    /\ xch' = [xch EXCEPT !.bodyLeft = xch.bodyLeft - n]
    /\ GoOn
    /\ UNCHANGED <<phase, hvars, nvars>>

\* RecvState::Done
RecvDone(i) ==
    /\ Driving(i, "recv")
    /\ xch.gotResp
    /\ xch.bodyLeft = 0
    /\ Report(i, Rep("Recv", "Done", 0, ""))
    /\ log' = Append(log, Rep("Recv", "Done", 0, ""))
    /\ Finish(i)
    /\ UNCHANGED <<hvars, nvars>>

\* RecvState::DoneWithBody(body): the engine hands out what it buffered.
DoneWithBody(i) ==
    /\ Driving(i, "recv")
    /\ xch.gotResp
    /\ xch.bodyLeft > 0
    /\ Report(i, Rep("Recv", "DoneWithBody", xch.bodyLeft, ""))
    /\ log' = Append(log, Rep("Recv", "DoneWithBody", xch.bodyLeft, ""))
    /\ Finish(i)
    /\ UNCHANGED <<hvars, nvars>>

\* RecvState::Sending: a redirect or an authentication challenge pushes the
\* exchange back into the send phase, the request to be sent again.
Sending(i) ==
    /\ Driving(i, "recv")
    /\ xch.gotResp
    /\ xch.bodyLeft = 0
    /\ xch.hops < MaxRedirects
    /\ Report(i, Rep("Recv", "Sending", 0, ""))
    /\ log' = Append(log, Rep("Recv", "Sending", 0, ""))
    /\ phase' = "send"
    /\ xch' = [NoXch EXCEPT !.reqLeft = xch.req, !.req = xch.req,
                            !.hops = xch.hops + 1]
    /\ GoOn
    /\ UNCHANGED <<hvars, nvars>>

Halves == {"Send", "Recv"}

DriveNext ==
    \/ \E i \in CallIdx, req \in {0, ReqBodyLen}, needBody \in BOOLEAN :
          Start(i, req, needBody)
    \/ \E i \in CallIdx, st \in Halves : DriveMisuse(i, st)
    \/ \E i \in CallIdx, st \in Halves : DriveWait(i, st)
    \/ \E i \in CallIdx, st \in Halves : DriveError(i, st)
    \/ \E i \in CallIdx : WaitReqBody(i)
    \/ \E i \in CallIdx, n \in 1 .. ReqBodyLen : SentBody(i, n)
    \/ \E i \in CallIdx : Receiving(i)
    \/ \E i \in CallIdx : SendDone(i)
    \/ \E i \in CallIdx, n \in {0, RedirBodyLen, RespBodyLen} :
          Response(i, "Sized", n)
    \/ \E i \in CallIdx : Response(i, "Streamed", RespBodyLen)
    \/ \E i \in CallIdx, n \in 1 .. RespBodyLen : ReceivedBody(i, n)
    \/ \E i \in CallIdx : RecvDone(i)
    \/ \E i \in CallIdx : DoneWithBody(i)
    \/ \E i \in CallIdx : Sending(i)

DriveSpec == Init /\ [][DriveNext]_vars

\* ------------------------------------------------- reading the headers
\* Header lines a small block has at most, and lines of the longest block.
SmallLines == 4
MaxLines == 40

\* What a header line of the accumulated block is: well formed with a UTF-8
\* value, well formed with a value that is not UTF-8, or rejected by the
\* parser.
LineKinds == {"good", "nonutf8", "bad"}

\* The j-th line of a block: the name "Hdd" with the digits of j.
LineOf(j, kind) ==
    LET name == <<72, 48 + (j \div 10), 48 + (j % 10)>>
    IN  CASE kind = "good" ->
               [ok |-> TRUE, kind |-> kind, name |-> name,
                value |-> IF j % 2 = 0 THEN <<118, 195, 169>>
                          ELSE <<118, 48 + (j % 10)>>]
          [] kind = "nonutf8" ->
               [ok |-> TRUE, kind |-> kind, name |-> name,
                value |-> IF j % 3 = 0 THEN <<118, 255>>
                          ELSE IF j % 3 = 1 THEN <<195>>
                          ELSE <<237, 160, 128>>]
          [] OTHER ->
               [ok |-> FALSE, kind |-> "bad", name |-> <<>>, value |-> <<>>]

\* Every block of at most SmallLines lines.
SmallBlocks ==
    UNION {{[j \in 1 .. n |-> LineOf(j, f[j])] : f \in [1 .. n -> LineKinds]} :
              n \in 0 .. SmallLines}

\* Where a long block has a line that is not good, and what the line is:
\* nowhere, the first line, the line of the last slot, the line after it.
Defects ==
    {<<0, "good">>, <<1, "nonutf8">>, <<HeaderCap, "nonutf8">>,
     <<HeaderCap, "bad">>, <<HeaderCap + 1, "bad">>}

\* Blocks of exactly the capacity and the longest one, with at most one line
\* that is not good.
LargeBlocks ==
    {[j \in 1 .. n |-> LineOf(j, IF j = d[1] THEN d[2] ELSE "good")] :
        n \in {HeaderCap, MaxLines}, d \in Defects}

Blocks == SmallBlocks \cup LargeBlocks

\* The engine has accumulated a block and a status.
RespInit ==
    /\ call = [i \in CallIdx |-> NoCall]
    /\ args = [i \in CallIdx |-> NoArgs]
    /\ dead = {}
    /\ ref = NoRef
    /\ ret = NoRet
    /\ cur = 0
    /\ phase = "idle"
    /\ xch = NoXch
    /\ log = <<>>
    /\ last = NoLast
    /\ resp \in {[hdrs |-> b, status |-> 200, ws |-> FALSE] : b \in Blocks}
    /\ it = [k \in ItIdx |-> NoIt]
    /\ item = NoItem
    /\ hret = NoHret
    /\ fsys = NoFs
    /\ cfg = NoCfg

\* let h = resp.headers()
Headers(k) ==
    /\ it' = [it EXCEPT ![k] = Response_headers(resp)]
    /\ item' = NoItem
    /\ UNCHANGED <<call, args, dead, hvars, evars, resp, hret, fsys, cfg>>

\* h.next()
IterNext(k) ==
    /\ it[k] # NoIt
    /\ it' = [it EXCEPT ![k] = Headers_next(it[k]).self]
    /\ item' = [k |-> k, opt |-> Headers_next(it[k]).item]
    /\ UNCHANGED <<call, args, dead, hvars, evars, resp, hret, fsys, cfg>>

RespNext ==
    \/ \E k \in ItIdx : Headers(k)
    \/ \E k \in ItIdx : IterNext(k)

RespSpec == RespInit /\ [][RespNext]_vars

\* ----------------------------------------------- body sizes, header names
\* Largest of the small body sizes, and the longest generated name.
MaxSized == 3
MaxNameLen == 2

\* Sizes of a Sized body: the small ones, and large ones.
Sizes == (0 .. MaxSized) \cup {65536, 2147483647}

Bodies == {Sized(n) : n \in Sizes} \cup {Streamed}

\* Bytes of generated names: A a @ ` and the two bytes each of U+00C9 and
\* U+00E9, whose second bytes differ by 32 as A and a do.
NameBytes == {65, 97, 64, 96, 195, 137, 169}

\* "Content-Type" "content-type" "CONTENT-TYPE" "Content Type" "Content-Typ"
ContentType == <<67, 111, 110, 116, 101, 110, 116, 45, 84, 121, 112, 101>>
content_type == <<99, 111, 110, 116, 101, 110, 116, 45, 116, 121, 112, 101>>
CONTENT_TYPE == <<67, 79, 78, 84, 69, 78, 84, 45, 84, 89, 80, 69>>
ContentSpType == <<67, 111, 110, 116, 101, 110, 116, 32, 84, 121, 112, 101>>
ContentTyp == <<67, 111, 110, 116, 101, 110, 116, 45, 84, 121, 112>>

\* The strs a name or an argument is drawn from: a str is UTF-8.
Names ==
    {s \in UNION {{[j \in 1 .. n |-> f[j]] : f \in [1 .. n -> NameBytes]} :
                     n \in 0 .. MaxNameLen} : from_utf8_ok(s)}
    \cup {ContentType, content_type, CONTENT_TYPE, ContentSpType, ContentTyp}

\* A body, or a header name and an argument, is at hand.
ValueInit ==
    /\ call = [i \in CallIdx |-> NoCall]
    /\ args = [i \in CallIdx |-> NoArgs]
    /\ dead = {}
    /\ ref = NoRef
    /\ ret = NoRet
    /\ cur = 0
    /\ phase = "idle"
    /\ xch = NoXch
    /\ log = <<>>
    /\ last = NoLast
    /\ resp = Response_new
    /\ it = [k \in ItIdx |-> NoIt]
    /\ item = NoItem
    /\ hret \in {[NoHret EXCEPT !.op = "body", !.body = b] : b \in Bodies}
                \cup {[NoHret EXCEPT !.op = "names", !.a = name, !.b = v] :
                         name \in Names, v \in Names}
    /\ fsys = NoFs
    /\ cfg = NoCfg

\* body.is_empty()
BodyIsEmpty ==
    /\ hret.op = "body"
    /\ hret' = [hret EXCEPT !.op = "is_empty",
                   !.val = ResponseBody_is_empty(hret.body)]
    /\ UNCHANGED <<call, args, dead, hvars, evars, resp, it, item, fsys, cfg>>

\* Header::new(name, "x").is(v)
HeaderIs ==
    /\ hret.op = "names"
    /\ hret' = [hret EXCEPT !.op = "is",
                   !.val = Header_is(Header_new(hret.a, <<120>>), hret.b)]
    /\ UNCHANGED <<call, args, dead, hvars, evars, resp, it, item, fsys, cfg>>

ValueNext ==
    \/ BodyIsEmpty
    \/ HeaderIs

ValueSpec == ValueInit /\ [][ValueNext]_vars

\* ------------------------------------------------------ reading a folder
\* Entries of the longest listing.
MaxEntries == 3

\* An entry of a listing that the listing gives and whose every read works:
\* its extension, its size, and what it holds if it is a folder.
File(ext, len) ==
    [de |-> TRUE, ext |-> ext, meta |-> TRUE, len |-> len, open |-> TRUE,
     read |-> TRUE, data |-> 0, inner |-> 0]

\* The entries a listing is made of: one the listing fails on; a file that
\* is no certificate; a folder with a certificate in it; certificate files
\* whose metadata fails, of the limit size, below it that fail to open or to
\* read, and readable ones.
Entries ==
    {[File("crt", 0) EXCEPT !.de = FALSE],
     File("txt", 64),
     [File("", 4096) EXCEPT !.inner = 1],
     [File("pem", 64) EXCEPT !.meta = FALSE],
     File("pem", SizeLimit),
     [File("crt", SizeLimit - 1) EXCEPT !.open = FALSE],
     [File("pem", 64) EXCEPT !.read = FALSE],
     File("crt", SizeLimit - 1),
     File("pem", 0)}

\* The listings: the j-th entry holds the bytes numbered j.
Listings ==
    UNION {{[j \in 1 .. n |-> [f[j] EXCEPT !.data = j]] : f \in [1 .. n -> Entries]} :
              n \in 0 .. MaxEntries}

\* What the path may be: nothing, a file, a folder that cannot be listed, a
\* folder with a listing.
FileSystems ==
    {[NoFs EXCEPT !.kind = "missing"]}
    \cup {[NoFs EXCEPT !.kind = "file", !.meta = TRUE, !.open = o, !.read = r,
                       !.data = 1] : o \in BOOLEAN, r \in BOOLEAN}
    \cup {[NoFs EXCEPT !.kind = "dir", !.meta = TRUE]}
    \cup {[NoFs EXCEPT !.kind = "dir", !.meta = TRUE, !.list = TRUE, !.entries = l] :
             l \in Listings}

CertInit ==
    /\ call = [i \in CallIdx |-> NoCall]
    /\ args = [i \in CallIdx |-> NoArgs]
    /\ dead = {}
    /\ ref = NoRef
    /\ ret = NoRet
    /\ cur = 0
    /\ phase = "idle"
    /\ xch = NoXch
    /\ log = <<>>
    /\ last = NoLast
    /\ resp = Response_new
    /\ it = [k \in ItIdx |-> NoIt]
    /\ item = NoItem
    /\ hret = NoHret
    /\ fsys \in FileSystems
    /\ cfg = NoCfg

\* HttpcCfg::certs_from_path(path)
CertsFromPath ==
    /\ cfg = NoCfg
    /\ cfg' = certs_from_path(fsys)
    /\ UNCHANGED <<call, args, dead, hvars, evars, resp, it, item, hret, fsys>>

CertNext == CertsFromPath

CertSpec == CertInit /\ [][CertNext]_vars

\* -------------------------------------------------------- packing the ids
\* u16 ids across the range: the ends, their neighbours, single bits, both
\* sides of a byte boundary, and a mixed pattern (0xABCD).
Samples == {0, 1, 255, 256, 32768, 43981, 65534, 65535}

\* The Call object whose packing is looked at.
PackIdx == {1}

\* r = CallRef::new(con_id, call_id), with the ids c was made from.
RefOf(i) ==
    /\ Exists(i)
    /\ args[i].by = "new"
    /\ RefNew(args[i].con_id, args[i].call_id)

PackNext ==
    \/ \E i \in PackIdx, con_id \in Samples, call_id \in Samples :
          New(i, con_id, call_id)
    \/ \E i \in PackIdx : NewEmpty(i)
    \/ \E i \in PackIdx : Invalidate(i)
    \/ \E i \in PackIdx : GetRef(i)
    \/ \E i \in PackIdx : RefOf(i)
    \/ \E i \in PackIdx : IsEmpty(i)
    \/ \E i \in PackIdx : CallId(i)
    \/ \E i \in PackIdx : ConId(i)

PackSpec == Init /\ [][PackNext]_vars

\* ------------------------------------------------- identity properties
\* The pair (con_id, call_id) the i-th Call was constructed from.
PairOf(i) == <<args[i].con_id, args[i].call_id>>

\* The pair whose packed value is the sentinel's.
SentinelPair == <<Mask16, Mask16>>

\* Constructed by Call::new and not invalidated since.
MadeLive(i) == args[i].by = "new" /\ i \notin dead

\* The CallRef held was taken from Call i before i was invalidated, and i
\* has been invalidated since.
StaleFrom(i) == ref.src = i /\ ref.fresh /\ i \in dead

\* C1: invalidation is one-way. In every step, a Call that invalidate() has
\* been applied to is empty afterwards, and a Call that is empty stays the
\* sentinel whatever operation is applied (a second invalidate() included).
C1_InvalidationOneWay ==
    [][\A i \in CallIdx :
          /\ i \in dead' => Call_is_empty(call'[i])
          /\ Exists(i) /\ Call_is_empty(call[i]) => call'[i] = Call_empty]_vars

\* C1 witness: a Call made live from a non-sentinel pair was invalidated and
\* is_empty() on it then returned true.
C1_Witness ==
    \E i \in dead :
        /\ args[i].by = "new" /\ PairOf(i) # SentinelPair
        /\ ret = [op |-> "is_empty", i |-> i, val |-> TRUE]

\* C2 as stated: Call::new never yields an empty Call, for every pair of
\* 16-bit arguments.
C2_NewNeverEmpty ==
    \A i \in CallIdx : MadeLive(i) => ~Call_is_empty(call[i])

\* C2 amended: Call::new yields a non-empty Call for every pair of 16-bit
\* arguments other than (0xFFFF, 0xFFFF), whose packed value is the sentinel.
C2_NewNotEmptyUnlessSentinelPair ==
    \A i \in CallIdx :
        /\ MadeLive(i) /\ PairOf(i) # SentinelPair => ~Call_is_empty(call[i])
        /\ MadeLive(i) /\ PairOf(i) = SentinelPair => Call_is_empty(call[i])

\* C2 witness: is_empty() returned false on the live Call::new(0, 0xFFFF)
\* while a live Call::new(0xFFFF, 0) is held: one all-ones half each.
C2_Witness ==
    \E i, j \in CallIdx :
        /\ MadeLive(i) /\ PairOf(i) = <<0, Mask16>>
        /\ MadeLive(j) /\ PairOf(j) = <<Mask16, 0>>
        /\ ret = [op |-> "is_empty", i |-> i, val |-> FALSE]

\* C3: is_empty() is true exactly of the sentinel. A Call is empty iff it
\* came from Call::empty(), was invalidated, or was packed from the sentinel
\* pair; and that is iff both its fields are the sentinel's.
C3_IsEmptyIffSentinel ==
    /\ Call_is_empty(Call_empty)
    /\ \A i \in CallIdx :
          Exists(i) =>
             /\ Call_is_empty(call[i]) <=>
                   \/ i \in dead
                   \/ args[i].by = "empty"
                   \/ PairOf(i) = SentinelPair
             /\ Call_is_empty(call[i]) <=>
                   call[i].f0 = U32Max /\ call[i].f1 = UsizeMax
    /\ ret.op = "is_empty" /\ ret.val = FALSE =>
          args[ret.i].by = "new" /\ PairOf(ret.i) # SentinelPair

\* C3 witness: is_empty() returned false on the live Call::new(0xFFFF, 0)
\* while a Call::empty() is held.
C3_Witness ==
    /\ ret.op = "is_empty" /\ ret.val = FALSE
    /\ MadeLive(ret.i) /\ PairOf(ret.i) = <<Mask16, 0>>
    /\ \E j \in CallIdx : args[j].by = "empty"

\* C4 as stated: a CallRef taken from a Call that has since been invalidated
\* matches no Call issued by Call::new after that invalidation.
C4_StaleRefMatchesNoNewCall ==
    \A i, j \in CallIdx :
        StaleFrom(i) /\ MadeLive(j) /\ i \in args[j].after =>
            ~Call_is_ref(call[j], ref.val)

\* C4 amended: a CallRef taken from a Call that has since been invalidated
\* matches a Call issued by Call::new afterwards exactly when the new Call was
\* constructed from the same (con_id, call_id) pair as the old one.
C4_StaleRefMatchesSamePairOnly ==
    \A i, j \in CallIdx :
        StaleFrom(i) /\ args[i].by = "new" /\ MadeLive(j) /\ i \in args[j].after =>
            (Call_is_ref(call[j], ref.val) <=> PairOf(j) = PairOf(i))

\* C4 witness: is_ref on a Call issued after the invalidation, from another
\* pair on the same connection slot, returned false for the stale CallRef.
C4_Witness ==
    \E i, j \in CallIdx :
        /\ StaleFrom(i) /\ args[i].by = "new"
        /\ MadeLive(j) /\ i \in args[j].after
        /\ args[j].con_id = args[i].con_id /\ args[j].call_id # args[i].call_id
        /\ ret = [op |-> "is_ref", i |-> j, val |-> FALSE]

\* The CallRef held is CallRef::new of some pair, or the reference of a Call
\* made by Call::new and not invalidated.
LiveRef ==
    \/ ref.src = 0 /\ ref # NoRef
    \/ ref.src # 0 /\ MadeLive(ref.src)

\* C5 as stated: an invalidated Call matches no CallRef of a live Call made
\* by Call::new and no CallRef::new(con_id, call_id).
C5_DeadMatchesNoLiveRef ==
    \A i \in dead : LiveRef => ~Call_is_ref(call[i], ref.val)

\* LiveRef, the sentinel pair left out.
LiveRefNotSentinel ==
    \/ ref.src = 0 /\ ref # NoRef /\ ref.pair # SentinelPair
    \/ ref.src # 0 /\ MadeLive(ref.src) /\ PairOf(ref.src) # SentinelPair

\* C5 amended: an invalidated Call matches no CallRef of a live Call made by
\* Call::new from a pair other than (0xFFFF, 0xFFFF) and no
\* CallRef::new(con_id, call_id) with (con_id, call_id) # (0xFFFF, 0xFFFF).
C5_DeadMatchesNoNonSentinelRef ==
    \A i \in dead : LiveRefNotSentinel => ~Call_is_ref(call[i], ref.val)

\* C5 witness: is_ref on an invalidated Call returned false for
\* CallRef::new(0, 0).
C5_Witness ==
    /\ ref.src = 0 /\ ref.pair = <<0, 0>>
    /\ ret.op = "is_ref" /\ ret.i \in dead /\ ret.val = FALSE

\* C6: a CallRef taken from a live Call::new(slot, id) that was then
\* invalidated matches another Call::new(slot, id).
C6_StaleRefMatchesSamePair ==
    \A i, j \in CallIdx :
        /\ StaleFrom(i) /\ args[i].by = "new"
        /\ j # i /\ MadeLive(j) /\ PairOf(j) = PairOf(i)
        => Call_is_ref(call[j], ref.val)

\* C6 witness: is_ref returned true for the old CallRef on a Call made from
\* the same pair after the old Call was invalidated.
C6_Witness ==
    \E i, j \in CallIdx :
        /\ StaleFrom(i) /\ args[i].by = "new" /\ PairOf(i) # SentinelPair
        /\ MadeLive(j) /\ i \in args[j].after /\ PairOf(j) = PairOf(i)
        /\ ret = [op |-> "is_ref", i |-> j, val |-> TRUE]

\* C7: a live Call matches its own CallRef, the one it gives now and the one
\* it gave earlier; and a Call matches a CallRef exactly when their packed
\* values are equal.
C7_IsRefRoundTrip ==
    /\ \A i \in CallIdx :
          MadeLive(i) =>
             /\ Call_is_ref(call[i], Call_get_ref(call[i]))
             /\ ref.src = i => Call_is_ref(call[i], ref.val)
    /\ \A i \in CallIdx :
          Exists(i) /\ ref # NoRef =>
             (Call_is_ref(call[i], ref.val) <=> call[i].f0 = ref.val.f0)

\* C7 witness: is_ref returned true on a live Call for the CallRef it gave,
\* with a second live Call of another packed value held.
C7_Witness ==
    \E i, j \in CallIdx :
        /\ MadeLive(i) /\ ref.src = i
        /\ MadeLive(j) /\ call[j].f0 # call[i].f0
        /\ ret = [op |-> "is_ref", i |-> i, val |-> TRUE]

\* C8: Call::new is injective and equality is structural. Two Calls made by
\* Call::new are equal iff they were made from the same pair.
C8_NewInjective ==
    \A i, j \in CallIdx :
        MadeLive(i) /\ MadeLive(j) =>
            (Call_eq(call[i], call[j]) <=> PairOf(i) = PairOf(j))

\* C8 witness: Call::new(0xFFFF, 0) and Call::new(0, 0xFFFF) are held, the
\* same two ids in exchanged places.
C8_Witness ==
    \E i, j \in CallIdx :
        /\ MadeLive(i) /\ MadeLive(j)
        /\ PairOf(i) = <<Mask16, 0>> /\ PairOf(j) = <<0, Mask16>>
        /\ ~Call_eq(call[i], call[j])

ScenarioA ==
    << Rep("Send", "SentBody", ReqBodyLen, ""),
       Rep("Send", "Receiving", 0, ""),
       Rep("Recv", "Response", RespBodyLen, "Sized"),
       Rep("Recv", "ReceivedBody", RespBodyLen, ""),
       Rep("Recv", "Done", 0, "") >>

\* The exchange in progress has reported variants of scenario A only.
InScenarioA ==
    /\ cur # 0
    /\ xch.req = ReqBodyLen
    /\ \A k \in 1 .. Len(log) : \E m \in 1 .. Len(ScenarioA) : log[k] = ScenarioA[m]

ScenarioB ==
    << Rep("Recv", "Response", 0, "Sized"),
       Rep("Recv", "Sending", 0, ""),
       Rep("Send", "SentBody", ReqBodyLen, ""),
       Rep("Send", "Receiving", 0, ""),
       Rep("Recv", "Response", RedirBodyLen, "Sized"),
       Rep("Recv", "ReceivedBody", RedirBodyLen, "") >>

AllGood(hdrs) == \A j \in 1 .. Len(hdrs) : hdrs[j].kind = "good"

\* The lines the parser takes: those before the first one it rejects, 32 at
\* most.
Taken(hdrs) ==
    LET lead == {n \in 0 .. Len(hdrs) : \A j \in 1 .. n : hdrs[j].kind # "bad"}
        most == CHOOSE n \in lead : \A m \in lead : m <= n
    IN  SubSeq(hdrs, 1, IF most < HeaderCap THEN most ELSE HeaderCap)

IsGoodLine(l) == l.kind = "good"

\* C12: header count bound. Headers never has more than 32 entries, and from
\* a block of 32 or more lines (40 is one), all well formed with UTF-8
\* values, it has exactly 32: the first 32 lines in wire order.
C12_HeaderCountBound ==
    \A k \in ItIdx :
        it[k] # NoIt =>
           /\ it[k].len <= HeaderCap
           /\ it[k].next <= it[k].len
           /\ AllGood(resp.hdrs) /\ Len(resp.hdrs) >= HeaderCap =>
                 /\ it[k].len = HeaderCap
                 /\ \A j \in 1 .. HeaderCap :
                       it[k].headers[j] =
                          Header_new(resp.hdrs[j].name, resp.hdrs[j].value)

\* C12 witness: from 40 good lines the iterator gave 32 entries, the 32nd
\* line last, and then None.
C12_Witness ==
    /\ Len(resp.hdrs) = MaxLines /\ AllGood(resp.hdrs)
    /\ it[1].len = HeaderCap /\ it[1].next = HeaderCap
    /\ it[1].headers[HeaderCap].name = resp.hdrs[HeaderCap].name
    /\ item = [k |-> 1, opt |-> None]

\* C13: values that are not UTF-8 are skipped and the scan goes on. The
\* entries of Headers are the lines the parser took whose value is UTF-8,
\* in wire order and without a gap; the slots after them are left empty.
C13_NonUtf8Skipped ==
    \A k \in ItIdx :
        it[k] # NoIt =>
           LET keep == SelectSeq(Taken(resp.hdrs), IsGoodLine)
           IN  /\ it[k].len = Len(keep)
               /\ \A j \in 1 .. HeaderCap :
                     it[k].headers[j] =
                        IF j <= Len(keep)
                        THEN Header_new(keep[j].name, keep[j].value)
                        ELSE Header_default

\* C13 witness: of four lines the second has a value that is not UTF-8; the
\* iterator gave the first, third and fourth, in that order.
C13_Witness ==
    /\ Len(resp.hdrs) = 4
    /\ resp.hdrs[2].kind = "nonutf8"
    /\ \A j \in {1, 3, 4} : resp.hdrs[j].kind = "good"
    /\ it[1].len = 3 /\ it[1].next = 3
    /\ it[1].headers[2].name = resp.hdrs[3].name
    /\ item = [k |-> 1, opt |-> Some(Header_new(resp.hdrs[4].name, resp.hdrs[4].value))]

\* C17: Headers is a finite scan, restarted by every headers(). No step
\* changes the Response. In a step an iterator is left alone, or is made anew
\* at the first entry with the entries it had, or moves on by one and gives
\* the entry it was at; the other iterator is not touched. An iterator that
\* has given its len entries gives None and stays where it is.
C17_RestartableScan ==
    [][/\ resp' = resp
       /\ \A k \in ItIdx :
             \/ it'[k] = it[k]
             \/ /\ it'[k].next = 0
                /\ it[k] # NoIt =>
                      it'[k].headers = it[k].headers /\ it'[k].len = it[k].len
                /\ \A m \in ItIdx \ {k} : it'[m] = it[m]
             \/ /\ it[k].next < it[k].len
                /\ it'[k] = [it[k] EXCEPT !.next = it[k].next + 1]
                /\ item' = [k |-> k, opt |-> Some(it[k].headers[it[k].next + 1])]
                /\ \A m \in ItIdx \ {k} : it'[m] = it[m]
       /\ \A k \in ItIdx :
             item'.k = k /\ it'[k] = it[k] =>
                item'.opt = None /\ it[k].next = it[k].len]_vars

\* C17 witness: the first iterator has given all its entries and then None,
\* while the second, made after the first was exhausted, is at its start.
C17_Witness ==
    /\ it[1] # NoIt /\ it[1].len >= 3 /\ it[1].next = it[1].len
    /\ it[2] # NoIt /\ it[2].next = 0 /\ it[2].len = it[1].len
    /\ item = [k |-> 1, opt |-> None]

\* ------------------------------------------------------ value properties
\* C14: is_empty() is true iff the body is Sized(0): Sized(n) with n >= 1 is
\* not empty and Streamed is never empty.
C14_EmptyIffSizedZero ==
    hret.op = "is_empty" =>
       /\ hret.val <=> hret.body = Sized(0)
       /\ hret.body = Streamed => ~hret.val
       /\ hret.body.tag = "Sized" /\ hret.body.n >= 1 => ~hret.val

\* C14 witness: is_empty() has answered true on Sized(0).
C14_Witness == hret.op = "is_empty" /\ hret.body = Sized(0) /\ hret.val

\* Two bytes are the same, or the same ASCII letter in the two cases.
SameLetter(x, y) ==
    \/ x = y
    \/ x \in 65 .. 90 /\ y = x + 32
    \/ y \in 65 .. 90 /\ x = y + 32

\* C15: Header::is is true iff the argument has the length of the name and
\* each byte is the name's byte or the same ASCII letter in the other case;
\* "Content-Type" is "content-type" and is not "Content Type".
C15_IsAsciiCaseInsensitive ==
    hret.op = "is" =>
       /\ hret.val <=>
             /\ Len(hret.a) = Len(hret.b)
             /\ \A i \in 1 .. Len(hret.a) : SameLetter(hret.a[i], hret.b[i])
       /\ hret.a = ContentType /\ hret.b = content_type => hret.val
       /\ hret.a = ContentType /\ hret.b = ContentSpType => ~hret.val

\* C15 witness: "Content-Type" has answered true to "content-type".
C15_Witness ==
    hret.op = "is" /\ hret.a = ContentType /\ hret.b = content_type /\ hret.val

\* ------------------------------------------------- certificate properties
\* An entry is a readable certificate file below the size limit.
ReadableCert(e) ==
    /\ e.de /\ e.ext \in {"crt", "pem"}
    /\ e.meta /\ e.len < 8192 /\ e.open /\ e.read

\* An entry is a certificate file whose metadata or contents cannot be read.
UnreadableCert(e) ==
    /\ e.de /\ e.ext \in {"crt", "pem"}
    /\ \/ ~e.meta
       \/ e.len < 8192 /\ (~e.open \/ ~e.read)

RECURSIVE DataOf(_)
DataOf(es) == IF es = <<>> THEN <<>> ELSE <<Head(es).data>> \o DataOf(Tail(es))

\* C16: on a folder that can be listed certs_from_path returns Ok and pem_ca
\* holds exactly the contents of the readable .crt and .pem files below 8192
\* bytes of the listing itself, whatever else the listing holds: unreadable
\* entries are skipped.
C16_UnreadableSkipped ==
    cfg # NoCfg /\ fsys.kind = "dir" /\ fsys.list =>
       /\ cfg.res = "Ok"
       /\ cfg.val.pem_ca = DataOf(SelectSeq(fsys.entries, ReadableCert))

\* C16, what the code does: that holds of the listings with no certificate
\* file that cannot be read, and on any other listing the call returns Err.
C16_UnreadableFails ==
    cfg # NoCfg /\ fsys.kind = "dir" /\ fsys.list =>
       IF \E j \in 1 .. Len(fsys.entries) : UnreadableCert(fsys.entries[j])
       THEN cfg = Err
       ELSE /\ cfg.res = "Ok"
            /\ cfg.val.pem_ca = DataOf(SelectSeq(fsys.entries, ReadableCert))

\* C16 witness: a listing of a readable certificate and one whose metadata
\* fails has been read, and the call returned Err.
C16_Witness ==
    /\ fsys.kind = "dir" /\ fsys.list /\ Len(fsys.entries) = 2
    /\ ReadableCert(fsys.entries[1])
    /\ ~fsys.entries[2].meta /\ fsys.entries[2].ext = "pem"
    /\ cfg = Err

\* --------------------------------------------------- CallRef properties
\* C18: a CallRef is never invalidated and changes no Call. A step that
\* invalidates a Call leaves the CallRef held as it was; a step that takes
\* a CallRef, or answers is_ref or is_empty, leaves every Call and the set
\* of invalidated Calls as they were; and a CallRef taken by get_ref() from a
\* Call made by Call::new before its invalidation is CallRef::new of that
\* Call's pair, also once the Call is invalidated.
C18_RefOutlivesInvalidation ==
    [][/\ dead' # dead => ref' = ref
       /\ ref' # ref \/ ret'.op \in {"is_ref", "is_empty"} =>
             call' = call /\ dead' = dead
       /\ ref'.src # 0 /\ ref'.fresh /\ args'[ref'.src].by = "new" =>
             ref'.val = CallRef_new(args'[ref'.src].con_id,
                                    args'[ref'.src].call_id)]_vars

\* C18 witness: the Call a CallRef was taken from has been invalidated and
\* has answered is_empty with true, and the CallRef is still the one of the
\* Call's pair, whose two ids differ.
C18_Witness ==
    /\ ref.src # 0 /\ ref.fresh /\ ref.src \in dead
    /\ args[ref.src].by = "new"
    /\ args[ref.src].con_id # args[ref.src].call_id
    /\ ref.val = CallRef_new(args[ref.src].con_id, args[ref.src].call_id)
    /\ ret = [op |-> "is_empty", i |-> ref.src, val |-> TRUE]

\* --------------------------------------------------- packing properties
\* The Call was made by Call::new and has not been invalidated.
Packed(i) == Exists(i) /\ args[i].by = "new" /\ i \notin dead

\* C19: the two derivations of a CallRef agree. While a Call made by
\* Call::new(con_id, call_id) is live, the CallRef that CallRef::new built
\* from the same ids has both fields of the Call's get_ref(), and the CallRef
\* taken by get_ref() has both fields of CallRef::new of the ids.
C19_DerivationsAgree ==
    \A i \in CallIdx :
        Packed(i) =>
           /\ ref.src = 0 /\ ref.pair = <<args[i].con_id, args[i].call_id>> =>
                 /\ ref.val.f0 = Call_get_ref(call[i]).f0
                 /\ ref.val.f1 = Call_get_ref(call[i]).f1
           /\ ref.src = i =>
                 /\ ref.val.f0 = CallRef_new(args[i].con_id, args[i].call_id).f0
                 /\ ref.val.f1 = CallRef_new(args[i].con_id, args[i].call_id).f1

\* C19 witness: a CallRef built by CallRef::new from the ids 0xABCD and 255
\* of a live Call is the Call's get_ref().
C19_Witness ==
    /\ Packed(1)
    /\ args[1].con_id = 43981 /\ args[1].call_id = 255
    /\ ref.src = 0 /\ ref.pair = <<43981, 255>>
    /\ ref.val = Call_get_ref(call[1])

\* C20: packing round-trips without overflow. A live Call made by
\* Call::new(con_id, call_id) holds call_id in the high and con_id in the
\* low 16 bits of its 32-bit value, each within 16 bits; con_id() and
\* call_id() return the ids it was made from; on the sentinel both return
\* 0xFFFF.
C20_PackRoundTrip ==
    \A i \in CallIdx :
        /\ Packed(i) =>
              /\ call[i].f0 = <<args[i].call_id, args[i].con_id>>
              /\ call[i].f0[1] \in 0 .. Mask16 /\ call[i].f0[2] \in 0 .. Mask16
              /\ Call_con_id(call[i]) = args[i].con_id
              /\ Call_call_id(call[i]) = args[i].call_id
              /\ ret.i = i /\ ret.op = "con_id" => ret.val = args[i].con_id
              /\ ret.i = i /\ ret.op = "call_id" => ret.val = args[i].call_id
        /\ Exists(i) /\ (i \in dead \/ args[i].by = "empty") =>
              /\ Call_con_id(call[i]) = Mask16 /\ Call_call_id(call[i]) = Mask16
              /\ ret.i = i /\ ret.op \in {"con_id", "call_id"} => ret.val = Mask16

\* C20 witness: call_id() has returned 0xABCD on a live Call made with
\* con_id 255.
C20_Witness ==
    /\ Packed(1)
    /\ args[1].con_id = 255 /\ args[1].call_id = 43981
    /\ ret.op = "call_id" /\ ret.i = 1 /\ ret.val = 43981

====
